---- MODULE Spec2Model ----
(***************************************************************************)
(* LineForge (normalize.py): the content transformation, the text codecs   *)
(* and the per-file processor process_file with its backup / write /       *)
(* restore sequence, as a state machine over one file and its `.bak`       *)
(* sibling.  Bytes and characters are code points (integers); a file's     *)
(* contents and a text are sequences of them.                              *)
(***************************************************************************)
EXTENDS Integers, Sequences, FiniteSets, TLC

\* ------------------------------------------------------------------ bounds
\* Longest file (in bytes) the processor is run on.
MaxLen == 3
\* Longest text the content transformation is applied to on its own.
MaxText == 4
MaxBin == 5
MaxFiles == 3
\* Stands for batch_size = 1000 (line 374), scaled down so that a few files
\* make several batches.
BatchSize == 2
MaxPat == 3

\* ------------------------------------------------------------- characters
TAB == 9
LF == 10
CR == 13
SP == 32

\* The bytes files are made of: NUL, tab, LF, CR, space, 'a', and the two high
\* bytes 0xC3 0xA0.  Together 0xC3 0xA0 is the UTF-8 form of U+00E0; alone
\* each is invalid UTF-8, and Latin-1 reads 0xC3 as a letter and 0xA0 as the
\* no-break space (a whitespace character for the regex class \s).
Bytes == {0, TAB, LF, CR, SP, 97, 195, 160}

\* The characters the transformation is applied to on its own: tab, LF, CR,
\* space, 'a' and the no-break space.
Chars == {TAB, LF, CR, SP, 97, 160}

\* What Python's re class \s matches in a str below U+0100.
SpaceChars == {9, 10, 11, 12, 13, 28, 29, 30, 31, 32, 133, 160}
IsSpace(c) == c \in SpaceChars

\* What the class [ \t] matches.
IsBlank(c) == c \in {SP, TAB}

\* All sequences over S of length 0..n.
RECURSIVE SeqsUpTo(_, _)
SeqsUpTo(S, n) ==
    IF n = 0 THEN {<<>>}
    ELSE LET shorter == SeqsUpTo(S, n - 1)
         IN shorter \cup {Append(s, c) : s \in {t \in shorter : Len(t) = n - 1}, c \in S}

Prefix(s, k) == SubSeq(s, 1, k)

\* The subsequence of s of the elements outside `drop`.
RECURSIVE Without(_, _)
Without(s, drop) ==
    IF s = <<>> THEN <<>>
    ELSE (IF Head(s) \in drop THEN <<>> ELSE <<Head(s)>>) \o Without(Tail(s), drop)

\* --------------------------------------------------- content transformation
\* re.sub(r"\n\s*\n", "\n\n", s): leftmost, greedy, non-overlapping.  A match
\* starts at an LF; \s* runs over the whitespace that follows and backtracks
\* to the last LF inside that run.
WsRunEnd(s, i) ==
    CHOOSE k \in i..Len(s) :
        /\ \A j \in (i + 1)..k : IsSpace(s[j])
        /\ (k = Len(s) \/ ~IsSpace(s[k + 1]))

BlankMatchEnd(s, i) ==
    LET ends == {j \in (i + 1)..WsRunEnd(s, i) : s[j] = LF}
    IN IF ends = {} THEN 0 ELSE CHOOSE j \in ends : \A m \in ends : m <= j

RECURSIVE CollapseFrom(_, _)
CollapseFrom(s, i) ==
    IF i > Len(s) THEN <<>>
    ELSE IF s[i] = LF /\ BlankMatchEnd(s, i) # 0
         THEN <<LF, LF>> \o CollapseFrom(s, BlankMatchEnd(s, i) + 1)
         ELSE <<s[i]>> \o CollapseFrom(s, i + 1)

CollapseBlankLines(s) == CollapseFrom(s, 1)

\* re.sub(r"[ \t]+$", "", s, flags=re.MULTILINE): a maximal run of spaces and
\* tabs is deleted when it ends at the end of the text or right before an LF
\* (the only places where $ matches).
BlankRunEnd(s, i) ==
    CHOOSE k \in i..Len(s) :
        /\ \A j \in i..k : IsBlank(s[j])
        /\ (k = Len(s) \/ ~IsBlank(s[k + 1]))

AtLineEnd(s, k) == k = Len(s) \/ s[k + 1] = LF

RECURSIVE StripFrom(_, _)
StripFrom(s, i) ==
    IF i > Len(s) THEN <<>>
    ELSE IF IsBlank(s[i]) /\ AtLineEnd(s, BlankRunEnd(s, i))
         THEN StripFrom(s, BlankRunEnd(s, i) + 1)
         ELSE <<s[i]>> \o StripFrom(s, i + 1)

StripTrailing(s) == StripFrom(s, 1)

\* Faulty variant: a tab becomes two spaces.
RECURSIVE ExpandTabsShort(_)
ExpandTabsShort(s) ==
    IF s = <<>> THEN <<>>
    ELSE (IF Head(s) = TAB THEN <<SP, SP>> ELSE <<Head(s)>>) \o ExpandTabsShort(Tail(s))

\* str.replace("\t", "    ")
RECURSIVE ExpandTabs(_)
ExpandTabs(s) ==
    IF s = <<>> THEN <<>>
    ELSE (IF Head(s) = TAB THEN <<SP, SP, SP, SP>> ELSE <<Head(s)>>) \o ExpandTabs(Tail(s))

\* Faulty variant: the CRLF pairs are not replaced first.
CRLFKept(s) == s

\* str.replace("\r\n", "\n")
RECURSIVE ReplaceCRLF(_)
ReplaceCRLF(s) ==
    IF s = <<>> THEN <<>>
    ELSE IF Len(s) >= 2 /\ s[1] = CR /\ s[2] = LF
         THEN <<LF>> \o ReplaceCRLF(SubSeq(s, 3, Len(s)))
         ELSE <<Head(s)>> \o ReplaceCRLF(Tail(s))

\* str.replace("\r", "\n")
ReplaceCR(s) == [i \in 1..Len(s) |-> IF s[i] = CR THEN LF ELSE s[i]]

\* Faulty variant: LF becomes LF CR.
RECURSIVE ReplaceLFSwapped(_)
ReplaceLFSwapped(s) ==
    IF s = <<>> THEN <<>>
    ELSE (IF Head(s) = LF THEN <<LF, CR>> ELSE <<Head(s)>>) \o ReplaceLFSwapped(Tail(s))

\* str.replace("\n", "\r\n")
RECURSIVE ReplaceLF(_)
ReplaceLF(s) ==
    IF s = <<>> THEN <<>>
    ELSE (IF Head(s) = LF THEN <<CR, LF>> ELSE <<Head(s)>>) \o ReplaceLF(Tail(s))

NormalizeEndings(s, newline_format) ==
    IF newline_format = "crlf"
    THEN ReplaceLF(ReplaceCR(ReplaceCRLF(s)))
    ELSE ReplaceCR(ReplaceCRLF(s))

\* modified_content as process_file computes it from content.
Transform(s, newline_format, remove_whitespace, preserve_tabs) ==
    LET stripped == IF remove_whitespace THEN StripTrailing(CollapseBlankLines(s)) ELSE s
        tabbed == IF preserve_tabs THEN stripped ELSE ExpandTabs(stripped)
    IN NormalizeEndings(tabbed, newline_format)

\* ------------------------------------------------------------------ codecs
IsCont(b) == b >= 128 /\ b <= 191
IsLead2(b) == b >= 194 /\ b <= 223

\* The strict UTF-8 decoder on one- and two-byte forms (three- and four-byte
\* forms need a lead byte >= 0xE0, which Bytes does not hold: such a byte is
\* reported as undecodable here).
RECURSIVE Utf8Valid(_)
Utf8Valid(b) ==
    IF b = <<>> THEN TRUE
    ELSE IF b[1] < 128 THEN Utf8Valid(Tail(b))
    ELSE IF IsLead2(b[1]) /\ Len(b) >= 2 /\ IsCont(b[2])
         THEN Utf8Valid(SubSeq(b, 3, Len(b)))
         ELSE FALSE

RECURSIVE Utf8Text(_)
Utf8Text(b) ==
    IF b = <<>> THEN <<>>
    ELSE IF b[1] < 128 THEN <<b[1]>> \o Utf8Text(Tail(b))
    ELSE <<(b[1] - 192) * 64 + (b[2] - 128)>> \o Utf8Text(SubSeq(b, 3, Len(b)))

\* open(..., encoding="utf-8").read(): ok = FALSE is UnicodeDecodeError.
DecodeUtf8(b) ==
    [ok |-> Utf8Valid(b), text |-> IF Utf8Valid(b) THEN Utf8Text(b) ELSE <<>>]

\* open(..., encoding="latin-1").read(): byte n is the character U+00nn.
DecodeLatin1(b) == [i \in 1..Len(b) |-> b[i]]

RECURSIVE EncodeUtf8(_)
EncodeUtf8(t) ==
    IF t = <<>> THEN <<>>
    ELSE (IF t[1] < 128 THEN <<t[1]>>
          ELSE IF t[1] < 2048 THEN <<192 + (t[1] \div 64), 128 + (t[1] % 64)>>
          ELSE <<224 + (t[1] \div 4096), 128 + ((t[1] \div 64) % 64), 128 + (t[1] % 64)>>)
         \o EncodeUtf8(Tail(t))

\* The Latin-1 encoder: defined on characters below U+0100 only.
CanEncodeLatin1(t) == \A i \in 1..Len(t) : t[i] < 256
EncodeLatin1(t) == [i \in 1..Len(t) |-> t[i]]

CanEncode(t, encoding) == encoding = "utf-8" \/ CanEncodeLatin1(t)
Encode(t, encoding) == IF encoding = "utf-8" THEN EncodeUtf8(t) ELSE EncodeLatin1(t)

\* ---------------------------------------------------------- is_binary_file
binary_extensions ==
    {".bin", ".exe", ".dll", ".so", ".dylib", ".obj", ".o", ".a", ".lib", ".png",
     ".jpg", ".jpeg", ".gif", ".bmp", ".ico", ".tif", ".tiff", ".zip", ".tar",
     ".gz", ".bz2", ".xz", ".7z", ".rar", ".pdf", ".doc", ".docx", ".xls",
     ".xlsx", ".ppt", ".pptx", ".class", ".pyc", ".pyo", ".pyd", ".mp3", ".mp4",
     ".avi", ".mov"}

ChunkSize == 8192

\* b"\x89PNG", b"GIF8", b"BM", b"\xff\xd8\xff", b"%PDF", b"PK\x03\x04"
MagicNumbers ==
    {<<137, 80, 78, 71>>, <<71, 73, 70, 56>>, <<66, 77>>, <<255, 216, 255>>,
     <<37, 80, 68, 70>>, <<80, 75, 3, 4>>}

StartsWith(s, p) == Len(s) >= Len(p) /\ SubSeq(s, 1, Len(p)) = p

text_characters == {7, 8, 9, 10, 12, 13, 27} \cup ((32..255) \ {127})

\* len(chunk.translate(None, bytes(text_characters)))
NonTextCount(chunk) == Cardinality({i \in 1..Len(chunk) : chunk[i] \notin text_characters})

\* Faulty variant: a fifth of the sample is already too much.
AtThreshold(n, m) == 5 * n >= m

\* float(n) / m > 0.2, in integers (exact for m up to the sample size).
ExceedsThreshold(n, m) == 5 * n > m

\* The verdict on the sample read from the file (lines 102-124).
IsBinaryContent(chunk) ==
    IF chunk = <<>> THEN FALSE
    ELSE IF \E i \in 1..Len(chunk) : chunk[i] = 0 THEN TRUE
    ELSE IF \E m \in MagicNumbers : StartsWith(chunk, m) THEN TRUE
    ELSE ExceedsThreshold(NonTextCount(chunk), Len(chunk))

\* os.path.splitext(file_path)[1].lower(), on the extensions of the model.
LowerExt(extension) == IF extension = ".PNG" THEN ".png" ELSE extension

\* Faulty variant: the read stops one byte short.
SampleShort(data) ==
    Prefix(data, IF Len(data) < ChunkSize - 1 THEN Len(data) ELSE ChunkSize - 1)

\* f.read(8192)
Sample(data) == Prefix(data, IF Len(data) < ChunkSize THEN Len(data) ELSE ChunkSize)

\* is_binary_file on a file with the given contents and extension; size_fail
\* and read_fail are an exception raised by os.path.getsize and by open/read
\* (the latter is also what an unreadable file gives).
is_binary_file(data, extension, can_read, size_fail, read_fail) ==
    IF size_fail THEN TRUE
    ELSE IF Len(data) = 0 THEN FALSE
    ELSE IF LowerExt(extension) \in binary_extensions THEN TRUE
    ELSE IF read_fail \/ ~can_read THEN TRUE
    ELSE IsBinaryContent(Sample(data))

\* ------------------------------------------------------------------- state
VARIABLES
    \* the file system: the file at file_path and its sibling file_path + ".bak"
    fileExists, fileData, readable, writable, ext, bakExists, bakData,
    \* the arguments of the call
    newline_format, remove_whitespace, preserve_tabs,
    \* process_file: position, locals, and what it returned
    pc, content, encoding_used, modified_content, ret, outcome,
    \* history: the file and backup as they were at the call, and how each
    \* step of the write sequence ended
    orig, bak0, backupRes, writeRes, removeRes, restoreRes, ioFault,
    \* the content transformation on its own: input, first and second result
    x, t1, t2, tpc,
    \* is_binary_file on its own: the file, position, size seen, sample read,
    \* result, and the exception raised on the way
    bdata, bext, bpc, bsize, bchunk, bres, bexc,
    \* process_files_parallel: len(files), the max_workers argument, position,
    \* the pool size, the start of the current batch, the futures of the batch,
    \* the three counters, the value returned
    nfiles, workers, ppc, max_workers, batch_start, futures,
    processed_count, skipped_count, error_count, pret,
    \* history: how often each file was added to each counter
    counted,
    \* the list of files, os.cpu_count(), and main: position, whether root_dir
    \* is a directory, the exit code
    files, cpu_count, mpc, root_ok, exit_code,
    \* history: how far the processing of each list position got, and the
    \* positions submitted and unfinished when the interrupt came
    progress, pending,
    \* find_files: the directory tree, the arguments, position, the patterns
    \* and ignore set in use, the next pattern, the list built
    tree, file_patterns, ignore_dirs, fpc, patterns, ignore_dirs_set, pat_next, all_files

fsVars == <<fileExists, fileData, readable, writable, ext, bakExists, bakData>>
argVars == <<newline_format, remove_whitespace, preserve_tabs>>
localVars == <<content, encoding_used, modified_content>>
histVars == <<orig, bak0, backupRes, writeRes, removeRes, restoreRes, ioFault>>
tVars == <<x, t1, t2, tpc>>
bVars == <<bdata, bext, bpc, bsize, bchunk, bres, bexc>>
pVars == <<nfiles, workers, ppc, max_workers, batch_start, futures,
           processed_count, skipped_count, error_count, pret, counted,
           files, cpu_count, mpc, root_ok, exit_code, progress, pending>>
fVars == <<tree, file_patterns, ignore_dirs, fpc, patterns, ignore_dirs_set, pat_next,
           all_files>>
vars == <<fsVars, argVars, pc, localVars, ret, outcome, histVars, tVars, bVars, pVars, fVars>>

\* find_files not running.
FindOff ==
    /\ tree = [files |-> <<>>, dirs |-> <<>>]
    /\ file_patterns = [given |-> FALSE, list |-> <<>>]
    /\ ignore_dirs = [given |-> FALSE, list |-> <<>>]
    /\ fpc = "off" /\ patterns = <<>> /\ ignore_dirs_set = {} /\ pat_next = 0
    /\ all_files = <<>>

\* process_files_parallel not running.
PoolOff ==
    /\ nfiles = 0 /\ workers = [given |-> FALSE, n |-> 0] /\ ppc = "off" /\ max_workers = 0
    /\ batch_start = 0 /\ futures = <<>>
    /\ processed_count = 0 /\ skipped_count = 0 /\ error_count = 0
    /\ pret = 0 /\ counted = <<>>
    /\ files = <<>> /\ cpu_count = [given |-> FALSE, n |-> 0] /\ mpc = "off"
    /\ root_ok = TRUE /\ exit_code = 0 /\ progress = <<>> /\ pending = {}

\* is_binary_file not running.
BinaryOff ==
    /\ bdata = <<>> /\ bext = ".txt" /\ bpc = "off" /\ bsize = 0
    /\ bchunk = <<>> /\ bres = "none" /\ bexc = "none"

\* A file left behind at file_path + ".bak" by something else.
StaleBak == <<98>>

Extensions == {".txt", ".png"}
Formats == {"lf", "crlf"}

\* The exceptions an I/O call may raise ("none": it returns).
IOExc == {"none", "OSError", "PermissionError"}

\* ------------------------------------------------------- process_file: entry
Init ==
    /\ fileExists \in BOOLEAN
    /\ fileData \in SeqsUpTo(Bytes, MaxLen)
    /\ readable \in BOOLEAN
    /\ writable \in BOOLEAN
    /\ ext \in Extensions
    /\ (~fileExists => fileData = <<>> /\ readable /\ writable /\ ext = ".txt")
    /\ bakExists \in BOOLEAN
    /\ bakData = IF bakExists THEN StaleBak ELSE <<>>
    /\ newline_format \in Formats
    /\ remove_whitespace \in BOOLEAN
    /\ preserve_tabs \in BOOLEAN
    /\ pc = "exists"
    /\ content = <<>> /\ encoding_used = "none" /\ modified_content = <<>>
    /\ ret = "none" /\ outcome = "none"
    /\ orig = fileData /\ bak0 = bakExists
    /\ backupRes = "none" /\ writeRes = "none" /\ removeRes = "none"
    /\ restoreRes = "none" /\ ioFault = FALSE
    /\ x = <<>> /\ t1 = <<>> /\ t2 = <<>> /\ tpc = "off"
    /\ BinaryOff
    /\ PoolOff
    /\ FindOff

\* `return r`, after the log line that tells the outcomes apart.
Return(r, o) == pc' = "done" /\ ret' = r /\ outcome' = o

\* The except clauses that close process_file (lines 278-285): which outcome
\* an exception raised in its body ends in.
\* Faulty variant: the closing `except Exception` clause left out.
OnlyPermissionErrorCaught(exc) ==
    IF exc = "PermissionError" THEN "permission_denied" ELSE "escaped"

OuterHandler(exc) == IF exc = "PermissionError" THEN "permission_denied" ELSE "error"

RaiseOuter(exc) ==
    LET h == OuterHandler(exc)
    IN /\ pc' = "done"
       /\ outcome' = h
       /\ ret' = IF h = "escaped" THEN "raised" ELSE "False"

\* line 137: os.path.exists answers False for a missing file and for a file
\* it cannot stat.
CheckExists ==
    /\ pc = "exists"
    /\ \E stat_fail \in BOOLEAN :
        /\ ioFault' = (ioFault \/ stat_fail)
        /\ IF fileExists /\ ~stat_fail
           THEN pc' = "size" /\ UNCHANGED <<ret, outcome>>
           ELSE Return("False", "not_found")
    /\ UNCHANGED <<fsVars, argVars, localVars, tVars, bVars, pVars, fVars,
                   orig, bak0, backupRes, writeRes, removeRes, restoreRes>>

\* line 143
CheckSize ==
    /\ pc = "size"
    /\ \E exc \in IOExc :
        /\ ioFault' = (ioFault \/ exc # "none")
        /\ IF exc # "none" THEN RaiseOuter(exc)
           ELSE IF Len(fileData) = 0 THEN Return("False", "empty")
           ELSE pc' = "binary" /\ UNCHANGED <<ret, outcome>>
    /\ UNCHANGED <<fsVars, argVars, localVars, tVars, bVars, pVars, fVars,
                   orig, bak0, backupRes, writeRes, removeRes, restoreRes>>

\* line 149
CheckBinary ==
    /\ pc = "binary"
    /\ \E size_fail \in BOOLEAN, read_fail \in BOOLEAN :
        /\ ioFault' = (ioFault \/ size_fail \/ read_fail)
        /\ IF is_binary_file(fileData, ext, readable, size_fail, read_fail)
           THEN Return("False", "binary")
           ELSE pc' = "readable" /\ UNCHANGED <<ret, outcome>>
    /\ UNCHANGED <<fsVars, argVars, localVars, tVars, bVars, pVars, fVars,
                   orig, bak0, backupRes, writeRes, removeRes, restoreRes>>

\* line 155: os.access(file_path, os.R_OK)
CheckReadable ==
    /\ pc = "readable"
    /\ IF readable
       THEN pc' = "writable" /\ UNCHANGED <<ret, outcome>>
       ELSE Return("False", "not_readable")
    /\ UNCHANGED <<fsVars, argVars, localVars, histVars, tVars, bVars, pVars, fVars>>

\* line 161: os.access(file_path, os.W_OK)
CheckWritable ==
    /\ pc = "writable"
    /\ IF writable
       THEN pc' = "read_utf8" /\ UNCHANGED <<ret, outcome>>
       ELSE Return("False", "not_writable")
    /\ UNCHANGED <<fsVars, argVars, localVars, histVars, tVars, bVars, pVars, fVars>>

\* lines 169-173: an undecodable file goes on to the Latin-1 read; any other
\* exception leaves through the outer handlers.
ReadUtf8 ==
    /\ pc = "read_utf8"
    /\ \E exc \in IOExc :
        /\ ioFault' = (ioFault \/ exc # "none")
        /\ IF exc # "none"
           THEN RaiseOuter(exc) /\ UNCHANGED <<content, encoding_used>>
           ELSE IF DecodeUtf8(fileData).ok
           THEN /\ content' = DecodeUtf8(fileData).text
                /\ encoding_used' = "utf-8"
                /\ pc' = "transform"
                /\ UNCHANGED <<ret, outcome>>
           ELSE /\ pc' = "read_latin1"
                /\ UNCHANGED <<content, encoding_used, ret, outcome>>
    /\ UNCHANGED <<fsVars, argVars, modified_content, tVars, bVars, pVars, fVars,
                   orig, bak0, backupRes, writeRes, removeRes, restoreRes>>

\* lines 179-190
ReadLatin1 ==
    /\ pc = "read_latin1"
    /\ \E exc \in IOExc :
        /\ ioFault' = (ioFault \/ exc # "none")
        /\ IF exc # "none"
           THEN Return("False", "decode_error") /\ UNCHANGED <<content, encoding_used>>
           ELSE /\ content' = DecodeLatin1(fileData)
                /\ encoding_used' = "latin-1"
                /\ pc' = "transform"
                /\ UNCHANGED <<ret, outcome>>
    /\ UNCHANGED <<fsVars, argVars, modified_content, tVars, bVars, pVars, fVars,
                   orig, bak0, backupRes, writeRes, removeRes, restoreRes>>

\* Faulty variant: the comparison of line 227 left out.
AlwaysChanged(original_content, modified) == TRUE

\* line 227: original_content != modified_content

ContentChanged(original_content, modified) == original_content # modified

\* lines 193-227 and 274-277
TransformContent ==
    /\ pc = "transform"
    /\ LET m == Transform(content, newline_format, remove_whitespace, preserve_tabs)
       IN /\ modified_content' = m
          /\ IF ContentChanged(content, m)
             THEN pc' = "backup" /\ UNCHANGED <<ret, outcome>>
             ELSE Return("False", "no_change")
    /\ UNCHANGED <<fsVars, argVars, content, encoding_used, histVars, tVars, bVars, pVars, fVars>>

\* How shutil.copy2(src, dst) can end: done; failed before dst was opened;
\* or failed after dst was created, with k bytes of src in it (all of them
\* when it is the copy of the metadata that failed).
CopyOutcomes(src) ==
    {[ok |-> TRUE, wrote |-> TRUE, data |-> src],
     [ok |-> FALSE, wrote |-> FALSE, data |-> <<>>]}
    \cup {[ok |-> FALSE, wrote |-> TRUE, data |-> Prefix(src, k)] : k \in 0..Len(src)}

\* How open(path, "w") + write(new) + close can end: done; failed before the
\* file was truncated; or failed after, with only k bytes of new in the file.
WriteOutcomes(new) ==
    {[ok |-> TRUE, wrote |-> TRUE, data |-> new],
     [ok |-> FALSE, wrote |-> FALSE, data |-> <<>>]}
    \cup {[ok |-> FALSE, wrote |-> TRUE, data |-> Prefix(new, k)] : k \in 0..(Len(new) - 1)}

\* lines 229-237: the failure of the backup copy is logged and ignored.
Backup ==
    /\ pc = "backup"
    /\ \E o \in CopyOutcomes(fileData) :
        /\ bakExists' = (bakExists \/ o.wrote)
        /\ bakData' = IF o.wrote THEN o.data ELSE bakData
        /\ backupRes' = IF o.ok THEN "ok" ELSE "failed"
    /\ pc' = "write"
    /\ UNCHANGED <<fileExists, fileData, readable, writable, ext, argVars, localVars,
                   ret, outcome, orig, bak0, writeRes, removeRes, restoreRes, ioFault,
                   tVars, bVars, pVars, fVars>>

\* Faulty variant: the write always encodes as UTF-8.
AlwaysUtf8(encoding) == "utf-8"

\* line 240: the encoding the file is opened with for the write.

WriteEncoding(encoding) == encoding

\* lines 239-241; a failure is caught at line 250.
Write ==
    /\ pc = "write"
    /\ LET enc == WriteEncoding(encoding_used)
           new == Encode(modified_content, enc)
       IN \E o \in WriteOutcomes(new) :
            /\ o.ok => CanEncode(modified_content, enc)
            /\ fileData' = IF o.wrote THEN o.data ELSE fileData
            /\ writeRes' = IF o.ok THEN "ok" ELSE "failed"
            /\ pc' = IF o.ok THEN "remove_backup" ELSE "restore"
    /\ UNCHANGED <<fileExists, readable, writable, ext, bakExists, bakData, argVars,
                   localVars, ret, outcome, orig, bak0, backupRes, removeRes,
                   restoreRes, ioFault, tVars, bVars, pVars, fVars>>

\* Faulty variant: the backup is never found, so never removed.
BackupNeverSeen(exists) == FALSE

\* line 244: os.path.exists(temp_backup)

BackupPresent(exists) == exists

\* lines 243-249; os.remove raising is caught at line 250 as well.
RemoveBackup ==
    /\ pc = "remove_backup"
    /\ IF ~BackupPresent(bakExists)
       THEN /\ removeRes' = "absent"
            /\ Return("True", "modified")
            /\ UNCHANGED <<bakExists, bakData>>
       ELSE \E remove_fail \in BOOLEAN :
            IF remove_fail
            THEN /\ removeRes' = "failed"
                 /\ pc' = "restore"
                 /\ UNCHANGED <<bakExists, bakData, ret, outcome>>
            ELSE /\ removeRes' = "ok"
                 /\ bakExists' = FALSE
                 /\ bakData' = <<>>
                 /\ Return("True", "modified")
    /\ UNCHANGED <<fileExists, fileData, readable, writable, ext, argVars, localVars,
                   orig, bak0, backupRes, writeRes, restoreRes, ioFault, tVars, bVars, pVars, fVars>>

\* Faulty variant: the restoring copy reads the file instead of the backup.
RestoreFromFile(file, backup) == file

\* line 254: shutil.copy2(temp_backup, file_path) reads the backup.

RestoreSource(file, backup) == backup

\* lines 250-273: the handler of the write sequence.
Restore ==
    /\ pc = "restore"
    /\ IF ~bakExists
       THEN /\ restoreRes' = "nobackup"
            /\ UNCHANGED <<fileData, bakExists, bakData>>
       ELSE \E o \in CopyOutcomes(RestoreSource(fileData, bakData)), remove_fail \in BOOLEAN :
            /\ (~o.ok => ~remove_fail)
            /\ fileData' = IF o.wrote THEN o.data ELSE fileData
            /\ IF o.ok /\ ~remove_fail
               THEN bakExists' = FALSE /\ bakData' = <<>> /\ restoreRes' = "ok"
               ELSE UNCHANGED <<bakExists, bakData>> /\ restoreRes' = "failed"
    /\ Return("False", "write_error")
    /\ UNCHANGED <<fileExists, readable, writable, ext, argVars, localVars,
                   orig, bak0, backupRes, writeRes, removeRes, ioFault, tVars, bVars, pVars, fVars>>

Next ==
    \/ CheckExists
    \/ CheckSize
    \/ CheckBinary
    \/ CheckReadable
    \/ CheckWritable
    \/ ReadUtf8
    \/ ReadLatin1
    \/ TransformContent
    \/ Backup
    \/ Write
    \/ RemoveBackup
    \/ Restore

Spec == Init /\ [][Next]_vars

\* ------------------------------------------- the transformation on its own
\* process_file not running.
ProcessOff ==
    /\ fileExists = FALSE /\ fileData = <<>> /\ readable = FALSE /\ writable = FALSE
    /\ ext = ".txt" /\ bakExists = FALSE /\ bakData = <<>>
    /\ pc = "off"
    /\ content = <<>> /\ encoding_used = "none" /\ modified_content = <<>>
    /\ ret = "none" /\ outcome = "none"
    /\ orig = <<>> /\ bak0 = FALSE
    /\ backupRes = "none" /\ writeRes = "none" /\ removeRes = "none"
    /\ restoreRes = "none" /\ ioFault = FALSE

InitT ==
    /\ x \in SeqsUpTo(Chars, MaxText)
    /\ newline_format \in Formats
    /\ remove_whitespace \in BOOLEAN
    /\ preserve_tabs \in BOOLEAN
    /\ t1 = <<>> /\ t2 = <<>> /\ tpc = "input"
    /\ ProcessOff
    /\ BinaryOff
    /\ PoolOff
    /\ FindOff

\* The transformation of a text (lines 198-224).
ApplyOnce ==
    /\ tpc = "input"
    /\ t1' = Transform(x, newline_format, remove_whitespace, preserve_tabs)
    /\ tpc' = "once"
    /\ UNCHANGED <<fsVars, argVars, pc, localVars, ret, outcome, histVars, bVars, pVars, fVars, x, t2>>

\* The transformation of its own output: the second run over a file.
ApplyTwice ==
    /\ tpc = "once"
    /\ t2' = Transform(t1, newline_format, remove_whitespace, preserve_tabs)
    /\ tpc' = "twice"
    /\ UNCHANGED <<fsVars, argVars, pc, localVars, ret, outcome, histVars, bVars, pVars, fVars, x, t1>>

\* The conversion of the result to the other line-ending format, with the
\* same options: the second leg of a round trip.
OtherFormat(fmt) == IF fmt = "lf" THEN "crlf" ELSE "lf"

ConvertBack ==
    /\ tpc = "once"
    /\ t2' = Transform(t1, OtherFormat(newline_format), remove_whitespace, preserve_tabs)
    /\ tpc' = "back"
    /\ UNCHANGED <<fsVars, argVars, pc, localVars, ret, outcome, histVars, bVars, pVars, fVars, x, t1>>

NextT == ApplyOnce \/ ApplyTwice \/ ConvertBack

SpecT == InitT /\ [][NextT]_vars

\* ------------------------------------------------- is_binary_file: the steps
\* The transformation not running.
TransformOff ==
    /\ newline_format = "lf" /\ remove_whitespace = FALSE /\ preserve_tabs = FALSE
    /\ x = <<>> /\ t1 = <<>> /\ t2 = <<>> /\ tpc = "off"

\* The bytes of the files examined: NUL, a control byte outside
\* text_characters, and a letter.
BinBytes == {0, 1, 97}

\* How a file starts: with nothing special, with one of the signatures, or
\* with the beginning of one.
Openings == {<<>>, <<66>>, <<71, 73, 70>>} \cup MagicNumbers

\* Files longer than the sample: letters up to the edge of the sample or one
\* past it, then one more byte.
LongFiles ==
    {[i \in 1..n |-> 97] \o last : n \in {ChunkSize - 1, ChunkSize}, last \in {<<0>>, <<1>>}}

BinFiles == {o \o b : o \in Openings, b \in SeqsUpTo(BinBytes, MaxBin)} \cup LongFiles

BinExtensions == {".txt", ".png", ".PNG"}

\* What os.path.getsize, open and read may raise ("none": the call returns).
BinExc == {"none", "OSError", "ValueError"}

InitB ==
    /\ bdata \in BinFiles
    /\ bext \in BinExtensions
    /\ bpc = "getsize"
    /\ bsize = 0 /\ bchunk = <<>> /\ bres = "none" /\ bexc = "none"
    /\ ProcessOff
    /\ TransformOff
    /\ PoolOff
    /\ FindOff

\* Faulty variant: only OSError is caught.
OSErrorOnly(exc) == IF exc = "OSError" THEN "True" ELSE "raised"

\* except Exception: ... return True (lines 125-128)
BinaryHandler(exc) == "True"

RaiseBinary(exc) == bpc' = "done" /\ bexc' = exc /\ bres' = BinaryHandler(exc)

\* lines 46-48: os.path.getsize(file_path) == 0
GetSize ==
    /\ bpc = "getsize"
    /\ \E exc \in BinExc :
        IF exc # "none"
        THEN RaiseBinary(exc) /\ UNCHANGED bsize
        ELSE /\ bsize' = Len(bdata)
             /\ IF Len(bdata) = 0
                THEN bpc' = "done" /\ bres' = "False"
                ELSE bpc' = "ext" /\ UNCHANGED bres
             /\ UNCHANGED bexc
    /\ UNCHANGED <<fsVars, argVars, pc, localVars, ret, outcome, histVars, tVars, pVars, fVars,
                   bdata, bext, bchunk>>

\* lines 94-96: the extension, lower-cased, against the deny list
CheckExtension ==
    /\ bpc = "ext"
    /\ IF LowerExt(bext) \in binary_extensions
       THEN bpc' = "done" /\ bres' = "True"
       ELSE bpc' = "read" /\ UNCHANGED bres
    /\ UNCHANGED <<fsVars, argVars, pc, localVars, ret, outcome, histVars, tVars, pVars, fVars,
                   bdata, bext, bsize, bchunk, bexc>>

\* Another process empties the file between the size query and the read.
Truncated ==
    /\ bpc = "read"
    /\ bdata # <<>>
    /\ bdata' = <<>>
    /\ UNCHANGED <<fsVars, argVars, pc, localVars, ret, outcome, histVars, tVars, pVars, fVars,
                   bext, bpc, bsize, bchunk, bres, bexc>>

\* lines 99-100: open(file_path, "rb") and f.read(8192)
ReadChunk ==
    /\ bpc = "read"
    /\ \E exc \in BinExc :
        IF exc # "none"
        THEN RaiseBinary(exc) /\ UNCHANGED bchunk
        ELSE /\ bchunk' = Sample(bdata)
             /\ bpc' = "examine"
             /\ UNCHANGED <<bres, bexc>>
    /\ UNCHANGED <<fsVars, argVars, pc, localVars, ret, outcome, histVars, tVars, pVars, fVars,
                   bdata, bext, bsize>>

\* lines 102-124: the checks on the sample
Examine ==
    /\ bpc = "examine"
    /\ bres' = IF IsBinaryContent(bchunk) THEN "True" ELSE "False"
    /\ bpc' = "done"
    /\ UNCHANGED <<fsVars, argVars, pc, localVars, ret, outcome, histVars, tVars, pVars, fVars,
                   bdata, bext, bsize, bchunk, bexc>>

NextB == GetSize \/ CheckExtension \/ Truncated \/ ReadChunk \/ Examine

SpecB == InitB /\ [][NextB]_vars

\* ------------------------------------------------------------- properties
\* What the file holds when the transformed text has been written whole: the
\* text decoded as process_file decodes it, transformed and encoded back.
ExpectedBytes ==
    IF DecodeUtf8(orig).ok
    THEN EncodeUtf8(Transform(DecodeUtf8(orig).text, newline_format,
                              remove_whitespace, preserve_tabs))
    ELSE EncodeLatin1(Transform(DecodeLatin1(orig), newline_format,
                                remove_whitespace, preserve_tabs))

\* C1: when process_file returns, the file holds its original bytes or exactly
\* the encoded transformed text, whatever failed on the way.
C1_OriginalOrTransformed ==
    (pc = "done" /\ fileExists) => (fileData = orig \/ fileData = ExpectedBytes)

\* C2: once the overwrite succeeded, process_file returns True with the backup
\* gone and the file holding the transformed content, whatever the deletion of
\* the backup does.
C2_WriteSuccessIsModified ==
    (pc = "done" /\ writeRes = "ok")
        => (ret = "True" /\ ~bakExists /\ fileData = ExpectedBytes)

\* C3 as claimed: backup made, write failed => the file is back to its original
\* bytes, the backup is deleted, and the call returns False.
C3_AlwaysRestored ==
    (pc = "done" /\ backupRes = "ok" /\ writeRes = "failed")
        => (fileData = orig /\ ~bakExists /\ ret = "False")

\* C3 as amended: backup made, write failed => the call returns False; and when
\* the restoring copy and the deletion of the backup both succeed, the file is
\* back to its original bytes and the backup is gone.
C3_RestoredUnlessRestoreFails ==
    (pc = "done" /\ backupRes = "ok" /\ writeRes = "failed")
        => /\ ret = "False"
           /\ restoreRes # "nobackup"
           /\ (restoreRes = "ok" => fileData = orig /\ ~bakExists)

C3_Witness ==
    /\ pc = "done" /\ backupRes = "ok" /\ writeRes = "failed" /\ restoreRes = "ok"
    /\ fileData = orig /\ ~bakExists /\ ret = "False"
    /\ ExpectedBytes # orig

\* C4 as claimed: after the return no file_path + ".bak" exists, unless the
\* restore step failed.
C4_NoBackupLeft ==
    (pc = "done" /\ restoreRes # "failed") => ~bakExists

\* C4 as amended: after the return no file_path + ".bak" exists, unless the
\* restore step failed, or a file of that name was there before the call and
\* the call returned before its write sequence.
C4_NoBackupLeftByTheCall ==
    (pc = "done" /\ restoreRes # "failed" /\ (bak0 => backupRes # "none"))
        => ~bakExists

C4_Witness ==
    /\ pc = "done" /\ ret = "True" /\ backupRes = "ok" /\ removeRes = "ok"
    /\ ~bakExists

\* C5: a failed backup copy does not stop the write, and when the write then
\* succeeds the call returns True with the file holding the transformed
\* content.
C5_BackupFailureIgnored ==
    /\ (backupRes = "failed" => pc \in {"write", "remove_backup", "restore", "done"})
    /\ (pc = "done" /\ backupRes = "failed" /\ writeRes = "ok")
           => (ret = "True" /\ fileData = ExpectedBytes)

\* C6: no exception leaves process_file: whatever a step raises, the call is at
\* one of its steps or has returned one boolean.
C6_AlwaysReturns ==
    /\ ret # "raised"
    /\ (pc = "done" <=> ret \in {"True", "False"})
    /\ pc \in {"exists", "size", "binary", "readable", "writable", "read_utf8",
               "read_latin1", "transform", "backup", "write", "remove_backup",
               "restore", "done"}
    /\ outcome # "escaped"

C6_Witness ==
    pc = "done" /\ ret = "False" /\ outcome \in {"error", "permission_denied"}

\* C7: transformed text equal to the decoded text <=> the no-change return,
\* which is False and comes with no write, no backup, and file and backup
\* sibling as they were.
C7_NoChangeUntouched ==
    /\ (pc \in {"backup", "write", "remove_backup", "restore"}
            \/ outcome \in {"modified", "write_error"})
           => modified_content # content
    /\ outcome = "no_change"
           => /\ ret = "False"
              /\ modified_content = content
              /\ content = IF encoding_used = "utf-8" THEN DecodeUtf8(orig).text
                           ELSE DecodeLatin1(orig)
              /\ fileData = orig
              /\ bakExists = bak0
              /\ bakData = IF bak0 THEN StaleBak ELSE <<>>
              /\ backupRes = "none" /\ writeRes = "none"

C7_Witness ==
    /\ pc = "done" /\ outcome = "no_change" /\ ret = "False"
    /\ Len(orig) > 0 /\ fileData = orig

\* C8: an existing, non-empty text file that the process may not read or may
\* not write ends in the permission failure, unchanged.
C8_PermissionFailure ==
    (/\ pc = "done"
     /\ fileExists /\ Len(orig) > 0
     /\ ext \notin binary_extensions /\ ~IsBinaryContent(orig)
     /\ ~ioFault
     /\ (~readable \/ ~writable))
        => /\ outcome \in {"not_readable", "not_writable", "permission_denied"}
           /\ fileData = orig

\* The bytes a run with the given options may rewrite: line endings; tabs and
\* the spaces they become; whitespace when it is stripped.
Rewritable ==
    {CR, LF}
        \cup (IF preserve_tabs THEN {} ELSE {TAB, SP})
        \cup (IF remove_whitespace THEN SpaceChars ELSE {})

\* C9: UTF-8 is tried first and Latin-1 only after a decode error; the write
\* encodes with the encoding of the read; a file modified through Latin-1
\* keeps every byte that is no line ending, tab or stripped whitespace.
C9_EncodingPreserved ==
    /\ encoding_used = "utf-8"
           => (DecodeUtf8(orig).ok /\ content = DecodeUtf8(orig).text)
    /\ encoding_used = "latin-1"
           => (~DecodeUtf8(orig).ok /\ content = DecodeLatin1(orig))
    /\ (pc = "remove_backup" \/ ret = "True")
           => fileData = Encode(modified_content, encoding_used)
    /\ (ret = "True" /\ encoding_used = "latin-1")
           => (/\ Len(fileData) = Len(modified_content)
               /\ Without(fileData, Rewritable) = Without(orig, Rewritable))

C9_Witness ==
    /\ pc = "done" /\ ret = "True" /\ encoding_used = "latin-1"
    /\ \E i \in 1..Len(orig) : orig[i] = 195
    /\ fileData # orig

\* C10: transforming the transformed text again changes nothing.
C10_Idempotent ==
    tpc = "twice" => t2 = t1

\* C27: process_file changes no file but file_path: a sibling file_path + ".bak"
\* that was there before the call is there at the return with its contents.
C27_SiblingUntouched ==
    (pc = "done" /\ bak0) => (bakExists /\ bakData = StaleBak)

\* --------------------------------------- properties of the transformation
\* For each line break of s (a CRLF pair, a CR without LF after it, an LF
\* without CR before it), the number of other characters before it.
RECURSIVE BreakOffsets(_, _)
BreakOffsets(s, n) ==
    IF s = <<>> THEN <<>>
    ELSE IF Len(s) >= 2 /\ s[1] = CR /\ s[2] = LF
         THEN <<n>> \o BreakOffsets(SubSeq(s, 3, Len(s)), n)
    ELSE IF s[1] \in {CR, LF} THEN <<n>> \o BreakOffsets(Tail(s), n)
    ELSE BreakOffsets(Tail(s), n + 1)

\* Every CR of s is followed by LF and every LF preceded by CR.
OnlyCRLF(s) ==
    \A i \in 1..Len(s) :
        /\ s[i] = CR => (i < Len(s) /\ s[i + 1] = LF)
        /\ s[i] = LF => (i > 1 /\ s[i - 1] = CR)

\* C11: without stripping and with tabs kept, each line break becomes one
\* target terminator where it stood and no other character changes: LF output
\* has no CR, CRLF output only CRLF pairs, and the breaks are as many as before.
C11_OnlyEndingsRewritten ==
    (tpc = "once" /\ ~remove_whitespace /\ preserve_tabs)
        => /\ Without(t1, {CR, LF}) = Without(x, {CR, LF})
           /\ BreakOffsets(t1, 0) = BreakOffsets(x, 0)
           /\ newline_format = "lf" => (\A i \in 1..Len(t1) : t1[i] # CR)
           /\ newline_format = "crlf" => OnlyCRLF(t1)
           /\ Len(t1) = Len(Without(x, {CR, LF}))
                  + Len(BreakOffsets(x, 0)) * (IF newline_format = "crlf" THEN 2 ELSE 1)

C11_Witness ==
    /\ tpc = "once" /\ ~remove_whitespace /\ preserve_tabs
    /\ x = <<LF, CR, LF, CR>>
    /\ t1 = IF newline_format = "lf" THEN <<LF, LF, LF>> ELSE <<CR, LF, CR, LF, CR, LF>>

\* C12: a text whose line endings are all CRLF, converted to LF and the result
\* converted to CRLF (no stripping, tabs kept), is the original text again.
C12_RoundTrip ==
    (tpc = "back" /\ newline_format = "lf" /\ ~remove_whitespace /\ preserve_tabs
        /\ OnlyCRLF(x))
        => t2 = x

C12_Witness ==
    /\ tpc = "back" /\ newline_format = "lf" /\ ~remove_whitespace /\ preserve_tabs
    /\ x = <<97, CR, LF, 97>> /\ t1 = <<97, LF, 97>> /\ t2 = x

\* C13: with stripping on, no line of the output ends with a space or a tab.
C13_NoTrailingBlanks ==
    (tpc = "once" /\ remove_whitespace)
        => \A i \in 1..Len(t1) :
               IsBlank(t1[i]) => (i < Len(t1) /\ t1[i + 1] \notin {CR, LF})

\* s, whose lines end with LF, has two blank lines in a row: a stretch of
\* whitespace that starts a line and holds two LF.
TwoBlankLines(s) ==
    \E i \in 1..Len(s), j \in 1..Len(s) :
        /\ i < j
        /\ (i = 1 \/ s[i - 1] = LF)
        /\ s[j] = LF
        /\ \A k \in i..j : IsSpace(s[k])
        /\ \E k \in i..(j - 1) : s[k] = LF

\* The text with every line break written as LF.
RECURSIVE AsLF(_)
AsLF(s) ==
    IF s = <<>> THEN <<>>
    ELSE IF Len(s) >= 2 /\ s[1] = CR /\ s[2] = LF THEN <<LF>> \o AsLF(SubSeq(s, 3, Len(s)))
    ELSE IF s[1] = CR THEN <<LF>> \o AsLF(Tail(s))
    ELSE <<s[1]>> \o AsLF(Tail(s))

\* C14: with stripping on, the output has no two blank lines in a row: every
\* run of blank lines of the input has become one blank line.
C14_BlankRunsCollapsed ==
    (tpc = "once" /\ remove_whitespace) => ~TwoBlankLines(AsLF(t1))

\* The number of tabs among the first k characters of s.
TabsBefore(s, k) == Cardinality({j \in 1..k : s[j] = TAB})

\* t is u with each tab replaced by four spaces, position by position.
TabsAsFourSpaces(u, t) ==
    /\ Len(t) = Len(u) + 3 * TabsBefore(u, Len(u))
    /\ \A i \in 1..Len(u) :
        LET at == i + 3 * TabsBefore(u, i - 1)
        IN IF u[i] = TAB
           THEN \A d \in 0..3 : t[at + d] = SP
           ELSE t[at] = u[i]

\* C15: with tabs not preserved the output has no tab, and is the output of
\* the same run with tabs preserved (so: after the stripping) with each of its
\* tabs replaced by four spaces, whatever the column.
C15_TabsExpanded ==
    (tpc = "once" /\ ~preserve_tabs)
        => /\ \A i \in 1..Len(t1) : t1[i] # TAB
           /\ TabsAsFourSpaces(Transform(x, newline_format, remove_whitespace, TRUE), t1)

C15_Witness ==
    /\ tpc = "once" /\ ~preserve_tabs /\ remove_whitespace
    /\ x = <<97, TAB, 97, TAB>>
    /\ t1 = <<97, SP, SP, SP, SP, 97>>

\* --------------------------------------------------------------- find_files
\* A name or a pattern is a sequence of characters; a directory is
\* [files |-> names, dirs |-> <<[name |-> string, tree |-> directory], ...>>];
\* a path is [dir |-> the directory names below the root, name |-> file name].
DOT == "."
STAR == "*"
SLASH == "/"
BLANK == " "

\* pattern.strip(), on patterns whose only whitespace is the blank
RECURSIVE StripLeft(_)
StripLeft(p) == IF p # <<>> /\ Head(p) = BLANK THEN StripLeft(Tail(p)) ELSE p

RECURSIVE StripRight(_)
StripRight(p) ==
    IF p # <<>> /\ p[Len(p)] = BLANK THEN StripRight(SubSeq(p, 1, Len(p) - 1)) ELSE p

Strip(p) == StripRight(StripLeft(p))

\* Faulty variant: the pattern is used as it is.
ExtensionNotExpanded(p) == p

\* lines 317-322: an extension becomes a glob pattern
GlobPattern(p) ==
    IF p # <<>> /\ p[1] = DOT /\ \A i \in 1..Len(p) : p[i] \notin {SLASH, "\\"}
    THEN <<STAR>> \o p
    ELSE p

\* fnmatch on one path component: * stands for any characters, the others
\* for themselves, case kept.
RECURSIVE FnMatch(_, _)
FnMatch(name, pat) ==
    IF pat = <<>> THEN name = <<>>
    ELSE IF Head(pat) = STAR
         THEN FnMatch(name, Tail(pat)) \/ (name # <<>> /\ FnMatch(Tail(name), pat))
    ELSE name # <<>> /\ Head(name) = Head(pat) /\ FnMatch(Tail(name), Tail(pat))

\* The components of a pattern as PurePath parses it: split at "/", the
\* empty components and "." dropped.
RECURSIVE SplitAt(_, _)
SplitAt(p, cur) ==
    IF p = <<>> THEN <<cur>>
    ELSE IF Head(p) = SLASH THEN <<cur>> \o SplitAt(Tail(p), <<>>)
    ELSE SplitAt(Tail(p), Append(cur, Head(p)))

RECURSIVE Kept(_)
Kept(parts) ==
    IF parts = <<>> THEN <<>>
    ELSE (IF Head(parts) \in {<<>>, <<DOT>>} THEN <<>> ELSE <<Head(parts)>>) \o Kept(Tail(parts))

PatternParts(glob) == Kept(SplitAt(glob, <<>>))

IsAbsolute(glob) == glob # <<>> /\ glob[1] = SLASH

\* Path(filename).match(glob) raises ValueError("empty pattern")
MatchRaises(glob) == PatternParts(glob) = <<>> /\ ~IsAbsolute(glob)

\* Path(filename).match(glob) for a file name of one component
PathMatch(name, glob) ==
    /\ ~IsAbsolute(glob)
    /\ Len(PatternParts(glob)) = 1
    /\ FnMatch(name, PatternParts(glob)[1])

\* lines 297-303
DefaultIgnoreDirs == <<".git", ".github", "__pycache__", "node_modules", "venv", ".venv">>

Range(q) == {q[i] : i \in 1..Len(q)}

RECURSIVE Concat(_)
Concat(qs) == IF qs = <<>> THEN <<>> ELSE Head(qs) \o Concat(Tail(qs))

\* os.walk(root_dir) with the pruning of line 327: the files in the order
\* they are visited, top down.
RECURSIVE Walk(_, _, _)
Walk(t, dir, ignore) ==
    [k \in 1..Len(t.files) |-> [dir |-> dir, name |-> t.files[k]]]
    \o Concat([k \in 1..Len(t.dirs) |->
                 IF t.dirs[k].name \in ignore THEN <<>>
                 ELSE Walk(t.dirs[k].tree, Append(dir, t.dirs[k].name), ignore)])

\* lines 324-342: the paths one pattern adds
RECURSIVE Matching(_, _)
Matching(visited, glob) ==
    IF visited = <<>> THEN <<>>
    ELSE (IF ~MatchRaises(glob) /\ PathMatch(Head(visited).name, glob)
          THEN <<Head(visited)>> ELSE <<>>) \o Matching(Tail(visited), glob)

\* The file names of the trees.
NameA == <<"a", DOT, "a">>
NameBak == <<"a", DOT, "a", DOT, "b", "a", "k">>
NameTxt == <<"a", DOT, "t", "x", "t">>

Leaf(names) == [files |-> names, dirs |-> <<>>]

\* A tree with ignored directories at two levels and below one another.
BigTree ==
    [files |-> <<NameA, <<"a">>, NameTxt>>,
     dirs |-> <<[name |-> ".git",
                 tree |-> [files |-> <<NameA>>,
                           dirs |-> <<[name |-> "lib", tree |-> Leaf(<<NameA>>)]>>]],
                [name |-> "lib",
                 tree |-> [files |-> <<<<DOT, "a">>, NameA, NameTxt>>,
                           dirs |-> <<[name |-> "venv", tree |-> Leaf(<<NameA>>)]>>]]>>]

\* A directory with one file, and one with a file and a file named as its backup.
OneFile == Leaf(<<NameA>>)
FileAndBak == Leaf(<<NameA, NameBak>>)

PatChars == {"a", DOT, STAR, SLASH, BLANK}
Patterns == SeqsUpTo(PatChars, MaxPat)
SecondPatterns == {<<DOT, "a">>, <<STAR>>, <<DOT, SLASH>>, <<>>}

\* The file_patterns argument: None, or a list.
PatternArgs ==
    {[given |-> FALSE, list |-> <<>>]}
    \cup {[given |-> TRUE, list |-> l] :
            l \in {<<>>} \cup {<<p>> : p \in Patterns}
                  \cup {<<p, q>> : p \in Patterns, q \in SecondPatterns}}

\* The ignore_dirs argument: None, or a list.
IgnoreArgs ==
    {[given |-> FALSE, list |-> <<>>], [given |-> TRUE, list |-> <<>>],
     [given |-> TRUE, list |-> <<"lib">>]}

InitF ==
    /\ tree \in {BigTree, FileAndBak}
    /\ file_patterns \in PatternArgs
    /\ ignore_dirs \in IgnoreArgs
    /\ fpc = "start"
    /\ patterns = <<>> /\ ignore_dirs_set = {} /\ pat_next = 0 /\ all_files = <<>>
    /\ ProcessOff
    /\ TransformOff
    /\ BinaryOff
    /\ PoolOff

\* lines 294-309: the defaults
FindStart ==
    /\ fpc = "start"
    /\ ignore_dirs_set' = Range(IF ignore_dirs.given THEN ignore_dirs.list
                                                     ELSE DefaultIgnoreDirs)
    /\ patterns' = IF file_patterns.given /\ file_patterns.list # <<>>
                   THEN file_patterns.list
                   ELSE <<<<DOT, "t", "x", "t">>>>
    /\ pat_next' = 1
    /\ all_files' = <<>>
    /\ fpc' = "patterns"
    /\ UNCHANGED <<fsVars, argVars, pc, localVars, ret, outcome, histVars, tVars, bVars,
                   pVars, tree, file_patterns, ignore_dirs>>

\* Faulty variant: a matching error ends the search with nothing.
LostOnError(found) == <<>>

\* lines 337-344: a matching error is logged and the loop goes on
KeptOnError(found) == found

\* lines 311-342: one round of the loop over the patterns
FindPattern ==
    /\ fpc = "patterns"
    /\ pat_next <= Len(patterns)
    /\ LET pattern == Strip(patterns[pat_next])
           glob == GlobPattern(pattern)
           visited == Walk(tree, <<>>, ignore_dirs_set)
       IN all_files' =
            IF pattern = <<>> THEN all_files
            ELSE IF MatchRaises(glob) /\ visited # <<>> THEN KeptOnError(all_files)
            ELSE all_files \o Matching(visited, glob)
    /\ pat_next' = pat_next + 1
    /\ UNCHANGED <<fsVars, argVars, pc, localVars, ret, outcome, histVars, tVars, bVars,
                   pVars, tree, file_patterns, ignore_dirs, fpc, patterns, ignore_dirs_set>>

\* line 344: return all_files
FindReturn ==
    /\ fpc = "patterns"
    /\ pat_next > Len(patterns)
    /\ fpc' = "returned"
    /\ UNCHANGED <<fsVars, argVars, pc, localVars, ret, outcome, histVars, tVars, bVars,
                   pVars, tree, file_patterns, ignore_dirs, patterns, ignore_dirs_set,
                   pat_next, all_files>>

NextF == FindStart \/ FindPattern \/ FindReturn

SpecF == InitF /\ [][NextF]_vars

\* ------------------------------------------ process_files_parallel and main
\* The positions of the list are numbered 1..nfiles; files[k] is the path at
\* position k.
\* None, or a number: `given` is false for None.
None == [given |-> FALSE, n |-> 0]
Some(v) == [given |-> TRUE, n |-> v]

\* The max_workers argument, and --workers.
WorkerArgs == {None} \cup {Some(v) : v \in {0, 1, 2, 40}}

\* os.cpu_count(): None when unknown.
CpuCounts == {None} \cup {Some(v) : v \in {1, 20}}

\* What a worker's process_file call ends in: a return value or an exception.
Results == {"True", "False", "raised"}

\* A list longer than the largest pool is a list of files that process_file
\* leaves alone.
ResultsOf(n) == IF n > MaxFiles THEN {"False"} ELSE Results

\* The lengths of the lists of a direct call: the short ones, and one longer
\* than the largest pool.
ListSizes == (0..MaxFiles) \cup {33}

Min(a, b) == IF a < b THEN a ELSE b

NoCounts == [processed |-> 0, skipped |-> 0, errors |-> 0]

\* What --file-patterns gives after split(), and the ignore list main passes.
MainPatterns ==
    {<<<<DOT, "a">>>>, <<<<DOT, "a">>, <<STAR, DOT, "a">>>>, <<<<STAR>>>>,
     <<<<DOT, "t", "x", "t">>>>}

\* A call of process_files_parallel on a list of distinct files (mpc = "off"),
\* or a run of main on a directory.
InitP ==
    /\ mpc \in {"off", "entry"}
    /\ workers \in WorkerArgs
    /\ cpu_count \in CpuCounts
    /\ IF mpc = "off"
       THEN /\ nfiles \in ListSizes
            /\ files = [k \in 1..nfiles |-> k]
            /\ ppc = "start"
            /\ root_ok = TRUE
            /\ FindOff
       ELSE /\ nfiles = 0 /\ files = <<>>
            /\ ppc = "notcalled"
            /\ root_ok \in BOOLEAN
            /\ tree \in {OneFile, FileAndBak}
            /\ file_patterns \in {[given |-> TRUE, list |-> l] : l \in MainPatterns}
            /\ ignore_dirs = [given |-> TRUE, list |-> DefaultIgnoreDirs]
            /\ fpc = "off" /\ patterns = <<>> /\ ignore_dirs_set = {} /\ pat_next = 0
            /\ all_files = <<>>
    /\ max_workers = 0 /\ batch_start = 0 /\ futures = <<>>
    /\ processed_count = 0 /\ skipped_count = 0 /\ error_count = 0
    /\ pret = 0 /\ exit_code = 0
    /\ counted = [k \in 1..nfiles |-> NoCounts]
    /\ progress = [k \in 1..nfiles |-> "idle"]
    /\ pending = {}
    /\ ProcessOff
    /\ TransformOff
    /\ BinaryOff

otherVars == <<fsVars, argVars, pc, localVars, ret, outcome, histVars, tVars, bVars>>
callVars == <<nfiles, files, cpu_count, root_ok>>
countVars == <<processed_count, skipped_count, error_count, counted>>

\* lines 560-590: root_dir is checked, a worker count of 0 or less replaced
\* by None, and find_files called.
MainEntry ==
    /\ mpc = "entry"
    /\ IF ~root_ok
       THEN mpc' = "returned" /\ exit_code' = 1 /\ UNCHANGED <<workers, fpc>>
       ELSE /\ workers' = IF workers.given /\ workers.n <= 0 THEN None ELSE workers
            /\ fpc' = "start"
            /\ mpc' = "find"
            /\ UNCHANGED exit_code
    /\ UNCHANGED <<otherVars, callVars, countVars, ppc, max_workers, batch_start, futures,
                   pret, progress, pending, tree, file_patterns, ignore_dirs, patterns,
                   ignore_dirs_set, pat_next, all_files>>

\* lines 606-621: the list found is passed to process_files_parallel, unless
\* it is empty.
MainFound ==
    /\ mpc = "find"
    /\ fpc = "returned"
    /\ IF all_files = <<>>
       THEN /\ mpc' = "returned" /\ exit_code' = 0
            /\ UNCHANGED <<files, nfiles, ppc, counted, progress>>
       ELSE /\ files' = all_files
            /\ nfiles' = Len(all_files)
            /\ counted' = [k \in 1..Len(all_files) |-> NoCounts]
            /\ progress' = [k \in 1..Len(all_files) |-> "idle"]
            /\ ppc' = "start"
            /\ mpc' = "running"
            /\ UNCHANGED exit_code
    /\ UNCHANGED <<otherVars, fVars, cpu_count, root_ok, workers, max_workers, batch_start,
                   futures, processed_count, skipped_count, error_count, pret, pending>>

\* Faulty variant: without the limit of 32.
PoolSizeUncapped(request, cpus, n) ==
    IF ~request.given
    THEN Min((IF cpus.given /\ cpus.n # 0 THEN cpus.n ELSE 2) * 2, n)
    ELSE Min(request.n, n)

\* lines 359-366: the pool size
PoolSize(request, cpus, n) ==
    IF ~request.given
    THEN Min(Min((IF cpus.given /\ cpus.n # 0 THEN cpus.n ELSE 2) * 2, 32), n)
    ELSE Min(Min(request.n, 32), n)

ComputeWorkers ==
    /\ ppc = "start"
    /\ max_workers' = PoolSize(workers, cpu_count, nfiles)
    /\ batch_start' = 0
    /\ ppc' = "loop"
    /\ UNCHANGED <<otherVars, fVars, callVars, countVars, workers, futures, pret, mpc,
                   exit_code, progress, pending>>

\* Faulty variant: the slice takes one file too many.
BatchFilesOverlapping(first, total) ==
    [k \in 1..(Min(first + BatchSize + 1, total) - first) |-> first + k]

\* line 376: files[i : i + batch_size], with i = first, as list positions
BatchFiles(first, total) ==
    [k \in 1..(Min(first + BatchSize, total) - first) |-> first + k]

\* The futures of the first j submits of the batch.
Submitted(batch, j) ==
    [k \in 1..j |-> [file |-> batch[k], st |-> "queued", result |-> "none"]]

\* lines 375-396: the next round of the loop: the pool is created and every
\* file of the batch submitted.  ThreadPoolExecutor raises ValueError for a
\* pool size of 0 or less, and nothing in the function catches it.
StartBatch ==
    /\ ppc = "loop"
    /\ batch_start < nfiles
    /\ IF max_workers <= 0
       THEN ppc' = "raised" /\ UNCHANGED <<futures, progress>>
       ELSE LET batch == BatchFiles(batch_start, nfiles)
            IN /\ futures' = Submitted(batch, Len(batch))
               /\ progress' = [k \in 1..nfiles |->
                                 IF k \in Range(batch) THEN "submitted" ELSE progress[k]]
               /\ ppc' = "pool"
    /\ UNCHANGED <<otherVars, fVars, callVars, countVars, workers, max_workers,
                   batch_start, pret, mpc, exit_code, pending>>

Running == {k \in 1..Len(futures) : futures[k].st = "running"}

\* Faulty variant: one thread of the pool is never used.
SpareWorkerKept == Cardinality(Running) < max_workers - 1

\* A thread of the pool is free (or can still be created).
FreeWorker == Cardinality(Running) < max_workers

\* A free worker thread of the pool takes a submitted task; the pool goes on
\* doing so while it shuts down.
WorkerStart ==
    /\ ppc \in {"pool", "draining"}
    /\ FreeWorker
    /\ \E k \in 1..Len(futures) :
        /\ futures[k].st = "queued"
        /\ futures' = [futures EXCEPT ![k].st = "running"]
        /\ progress' = [progress EXCEPT ![futures[k].file] = "running"]
    /\ UNCHANGED <<otherVars, fVars, callVars, countVars, workers, ppc, max_workers,
                   batch_start, pret, mpc, exit_code, pending>>

\* The process_file call of a worker ends; the future holds its outcome.
WorkerFinish ==
    /\ ppc \in {"pool", "draining"}
    /\ \E k \in 1..Len(futures), r \in ResultsOf(nfiles) :
        /\ futures[k].st = "running"
        /\ futures' = [futures EXCEPT ![k].st = "finished", ![k].result = r]
        /\ progress' = [progress EXCEPT ![futures[k].file] = r]
    /\ UNCHANGED <<otherVars, fVars, callVars, countVars, workers, ppc, max_workers,
                   batch_start, pret, mpc, exit_code, pending>>

\* Faulty variants: an exception counted as a modified file; a False result
\* counted as an error.
RaisedAsProcessed(r) == IF r = "False" THEN "skipped" ELSE "processed"
FalseAsError(r) == IF r = "True" THEN "processed" ELSE "errors"

\* lines 401-409: which counter a future's outcome adds to
CounterOf(r) ==
    IF r = "raised" THEN "errors" ELSE IF r = "True" THEN "processed" ELSE "skipped"

\* lines 399-414: as_completed hands over a finished future, in any order
Collect ==
    /\ ppc = "pool"
    /\ \E k \in 1..Len(futures) :
        /\ futures[k].st = "finished"
        /\ futures' = [futures EXCEPT ![k].st = "collected"]
        /\ LET c == CounterOf(futures[k].result)
           IN /\ processed_count' = processed_count + (IF c = "processed" THEN 1 ELSE 0)
              /\ skipped_count' = skipped_count + (IF c = "skipped" THEN 1 ELSE 0)
              /\ error_count' = error_count + (IF c = "errors" THEN 1 ELSE 0)
              /\ counted' = [counted EXCEPT ![futures[k].file][c] = @ + 1]
    /\ UNCHANGED <<otherVars, fVars, callVars, workers, ppc, max_workers, batch_start,
                   pret, mpc, exit_code, progress, pending>>

\* Faulty variant: the loop goes on as soon as the batch is submitted.
BatchSubmitted == TRUE

\* as_completed is exhausted: every future of the batch has been handed over.
BatchDrained == \A k \in 1..Len(futures) : futures[k].st = "collected"

\* The with blocks of lines 383 and 378 close when as_completed is exhausted
\* and the pool has shut down; range() gives the next start.
EndBatch ==
    /\ ppc = "pool"
    /\ BatchDrained
    /\ futures' = <<>>
    /\ batch_start' = batch_start + BatchSize
    /\ ppc' = "loop"
    /\ UNCHANGED <<otherVars, fVars, callVars, countVars, workers, max_workers, pret,
                   mpc, exit_code, progress, pending>>

\* lines 416-426: the loop is over; the summary is logged and the number of
\* modified files returned.
Finish ==
    /\ ppc = "loop"
    /\ batch_start >= nfiles
    /\ pret' = processed_count
    /\ ppc' = "done"
    /\ UNCHANGED <<otherVars, fVars, callVars, countVars, workers, max_workers,
                   batch_start, futures, mpc, exit_code, progress, pending>>

\* The futures of the pool that have not run to their end.
Unfinished(fs) == {fs[k].file : k \in {i \in 1..Len(fs) : fs[i].st \in {"queued", "running"}}}

\* KeyboardInterrupt is raised in the coordinating thread: before the pool
\* of the next batch exists, while the batch is being submitted (lines
\* 387-396, after j submits), or while the results are awaited (lines
\* 399-414).  Inside the with block of line 383 the exception first runs
\* executor.shutdown(wait=True).
KeyboardInterrupt ==
    /\ \/ /\ ppc \in {"start", "loop"}
          /\ ppc' = "cancelled"
          /\ UNCHANGED <<futures, progress, pending>>
       \/ /\ ppc = "loop" /\ batch_start < nfiles /\ max_workers > 0
          /\ LET batch == BatchFiles(batch_start, nfiles)
             IN \E j \in 0..(Len(batch) - 1) :
                  /\ futures' = Submitted(batch, j)
                  /\ progress' = [k \in 1..nfiles |->
                                    IF k \in {batch[i] : i \in 1..j}
                                    THEN "submitted" ELSE progress[k]]
                  /\ pending' = {batch[i] : i \in 1..j}
          /\ ppc' = "draining"
       \/ /\ ppc = "pool"
          /\ pending' = Unfinished(futures)
          /\ ppc' = "draining"
          /\ UNCHANGED <<futures, progress>>
    /\ UNCHANGED <<otherVars, fVars, callVars, countVars, workers, max_workers,
                   batch_start, pret, mpc, exit_code>>

\* Faulty variant: the pool is left without waiting for its threads.
ShutdownNoWait == TRUE

\* shutdown(wait=True) returns: no task is queued or running.
PoolIdle == Unfinished(futures) = {}

\* The with blocks are left and KeyboardInterrupt leaves the function.
Drained ==
    /\ ppc = "draining"
    /\ PoolIdle
    /\ ppc' = "cancelled"
    /\ UNCHANGED <<otherVars, fVars, callVars, countVars, workers, max_workers,
                   batch_start, futures, pret, mpc, exit_code, progress, pending>>

\* lines 623-651: process_files_parallel has returned; return 0
MainReturn ==
    /\ mpc = "running"
    /\ ppc = "done"
    /\ mpc' = "returned"
    /\ exit_code' = 0
    /\ UNCHANGED <<otherVars, fVars, callVars, countVars, workers, ppc, max_workers,
                   batch_start, futures, pret, progress, pending>>

\* lines 652-654: except KeyboardInterrupt: return 130
MainCancelled ==
    /\ mpc = "running"
    /\ ppc = "cancelled"
    /\ mpc' = "returned"
    /\ exit_code' = 130
    /\ UNCHANGED <<otherVars, fVars, callVars, countVars, workers, ppc, max_workers,
                   batch_start, futures, pret, progress, pending>>

NextP ==
    \/ MainEntry \/ FindStart \/ FindPattern \/ FindReturn \/ MainFound
    \/ ComputeWorkers \/ StartBatch \/ WorkerStart \/ WorkerFinish \/ Collect
    \/ EndBatch \/ Finish \/ KeyboardInterrupt \/ Drained \/ MainReturn \/ MainCancelled

SpecP == InitP /\ [][NextP]_vars

\* The steps of the program, without the interrupt.
ProgramP ==
    \/ MainEntry \/ FindStart \/ FindPattern \/ FindReturn \/ MainFound
    \/ ComputeWorkers \/ StartBatch \/ WorkerStart \/ WorkerFinish \/ Collect
    \/ EndBatch \/ Finish \/ Drained \/ MainReturn \/ MainCancelled

\* The same with the scheduling the code relies on: the coordinating thread
\* goes on, and each worker thread that can take or end a task does.
SpecPFair == InitP /\ [][NextP]_vars /\ WF_vars(ProgramP)

\* ------------------------------------------------ properties of is_binary_file
\* C16: is_binary_file always ends with True or False, never with an
\* exception; when the size query or the read raised, it returned True.
C16_NeverRaises ==
    bpc = "done" => /\ bres \in {"True", "False"}
                    /\ bexc # "none" => bres = "True"

C16_Witness ==
    /\ bpc = "done" /\ bexc = "ValueError" /\ bres = "True"
    /\ bext = ".txt" /\ bdata = <<97>> /\ bsize = 1

\* s has a NUL byte among its first 8192 bytes.
NulInSample(s) == \E i \in 1..Len(s) : i <= 8192 /\ s[i] = 0

\* C17: a file with a NUL byte among its first 8192 bytes is reported binary,
\* whatever its extension and the rest of its content.
C17_NulIsBinary ==
    (bpc = "done" /\ NulInSample(bdata)) => bres = "True"

C17_Witness ==
    /\ bpc = "done" /\ bexc = "none" /\ bext = ".txt" /\ bres = "True"
    /\ Len(bdata) = 8192 /\ bdata[8192] = 0
    /\ \A i \in 1..8191 : bdata[i] = 97

\* Printable ASCII, tab, LF and CR.
PlainAscii == (32..126) \cup {9, 10, 13}

\* C18: a non-empty file of plain ASCII text whose extension is not on the
\* deny list is reported not binary, whatever it starts with.
C18_AsciiIsText ==
    (bpc = "done" /\ bexc = "none" /\ bdata # <<>>
        /\ (\A i \in 1..Len(bdata) : bdata[i] \in PlainAscii)
        /\ bext = ".txt")
        => bres = "False"

\* The ordered decision list on what the call saw: the size, the extension
\* and the sample; sigs are the signatures looked for.
DecisionList(sigs) ==
    IF bsize = 0 THEN "False"
    ELSE IF bext \in {".png", ".PNG"} THEN "True"
    ELSE IF bchunk = <<>> THEN "False"
    ELSE IF \E i \in 1..Len(bchunk) : bchunk[i] = 0 THEN "True"
    ELSE IF \E g \in sigs : Len(bchunk) >= Len(g) /\ \A i \in 1..Len(g) : bchunk[i] = g[i]
         THEN "True"
    ELSE IF 5 * Cardinality({i \in 1..Len(bchunk) :
                ~(bchunk[i] \in {7, 8, 9, 10, 12, 13, 27}
                  \/ (bchunk[i] >= 32 /\ bchunk[i] <= 255 /\ bchunk[i] # 127))})
            > Len(bchunk)
         THEN "True"
    ELSE "False"

\* The signatures of PNG, GIF, JPEG, PDF and ZIP.
FiveSignatures ==
    {<<137, 80, 78, 71>>, <<71, 73, 70, 56>>, <<255, 216, 255>>, <<37, 80, 68, 70>>,
     <<80, 75, 3, 4>>}

\* C19 as stated: the result of a call without exception is that of the
\* decision list with the PNG, GIF, JPEG, PDF and ZIP signatures.
C19_DecisionList ==
    (bpc = "done" /\ bexc = "none") => bres = DecisionList(FiveSignatures)

\* C19 amended: the list also holds the BMP signature "BM".
C19_DecisionListWithBMP ==
    (bpc = "done" /\ bexc = "none") => bres = DecisionList(FiveSignatures \cup {<<66, 77>>})

\* A sample of five bytes with one outside the text set: a fraction of
\* exactly 0.2, not binary.
C19_Witness ==
    /\ bpc = "done" /\ bexc = "none" /\ bext = ".txt"
    /\ bchunk = <<97, 97, 1, 97, 97>> /\ bres = "False"

\* ---------------------------------------- properties of process_files_parallel
\* The files added to counter c.
CountedIn(c) == {f \in 1..nfiles : counted[f][c] > 0}

\* C20: when process_files_parallel returns, the three counters add up to the
\* number of files, and each file was added once to one counter.
C20_EveryFileCountedOnce ==
    ppc = "done"
        => /\ processed_count + skipped_count + error_count = nfiles
           /\ \A f \in 1..nfiles :
                counted[f].processed + counted[f].skipped + counted[f].errors = 1
           /\ processed_count = Cardinality(CountedIn("processed"))
           /\ skipped_count = Cardinality(CountedIn("skipped"))
           /\ error_count = Cardinality(CountedIn("errors"))

C20_Witness ==
    /\ ppc = "done" /\ nfiles = MaxFiles /\ nfiles > BatchSize
    /\ processed_count = 1 /\ error_count = 1 /\ skipped_count = nfiles - 2
    /\ counted[nfiles].errors = 1

\* The number of the batch that list position k falls in, from 0.
BatchOf(k) == (k - 1) \div BatchSize

Processed(k) == progress[k] \in {"True", "False", "raised"}

\* C21: when a worker raises, its file is counted as an error and as nothing
\* else, every file of the list is still processed, and the value returned is
\* the number of files whose processing returned True.
C21_RaisingWorkerIsAnError ==
    ppc = "done"
        => /\ \A k \in 1..nfiles : Processed(k)
           /\ \A k \in 1..nfiles :
                progress[k] = "raised"
                    => counted[k] = [processed |-> 0, skipped |-> 0, errors |-> 1]
           /\ pret = Cardinality({k \in 1..nfiles : progress[k] = "True"})

C21_Witness ==
    /\ ppc = "done" /\ nfiles = MaxFiles /\ nfiles > BatchSize
    /\ progress[1] = "raised"
    /\ \A k \in 2..nfiles : progress[k] = "True"
    /\ pret = nfiles - 1 /\ error_count = 1

\* C22: a batch has at most BatchSize files, and no file of a later batch is
\* submitted or started before every file of the batches before it has been
\* processed to its end.
C22_BatchesInTurn ==
    /\ Len(futures) <= BatchSize
    /\ \A k \in 1..nfiles, j \in 1..nfiles :
        (BatchOf(k) < BatchOf(j) /\ progress[j] # "idle") => Processed(k)

C22_Witness ==
    /\ ppc = "pool" /\ batch_start = BatchSize /\ nfiles > BatchSize
    /\ progress[BatchSize + 1] = "running"
    /\ \A k \in 1..BatchSize : Processed(k)

\* The smallest of three numbers.
Least(a, b, c) == CHOOSE m \in {a, b, c} : m <= a /\ m <= b /\ m <= c

\* C23: the pool size is min(request, 32, number of files) for a given worker
\* count and min(2 x CPU count, 32, number of files) otherwise, the CPU count
\* taken as 2 when unknown; at no moment are more files being processed.
C23_PoolSize ==
    ppc \in {"loop", "pool", "draining", "done"}
        => /\ max_workers
                = IF workers.given THEN Least(workers.n, 32, nfiles)
                  ELSE Least(2 * (IF cpu_count.given THEN cpu_count.n ELSE 2), 32, nfiles)
           /\ Cardinality({k \in 1..nfiles : progress[k] = "running"}) <= max_workers

C23_Witness ==
    /\ ppc = "pool" /\ nfiles = 33 /\ workers = [given |-> TRUE, n |-> 40]
    /\ max_workers = 32
    /\ progress[1] = "running"

\* C24: after a keyboard interrupt no file of a later batch is submitted, the
\* files submitted and unfinished when it came are processed to their end
\* before the call is left, and main returns 130; it returns 0 after a
\* completed run and 1 for a root that is no directory.
C24_Interrupt ==
    /\ ppc = "cancelled" => \A k \in pending : Processed(k)
    /\ ppc \in {"draining", "cancelled"}
        => \A k \in 1..nfiles : k > batch_start + BatchSize => progress[k] = "idle"
    /\ mpc = "returned"
        => exit_code = IF ~root_ok THEN 1 ELSE IF ppc = "cancelled" THEN 130 ELSE 0

C24_Witness ==
    /\ mpc = "returned" /\ exit_code = 130
    /\ pending # {}
    /\ \A k \in pending : progress[k] = "True"

\* The path p with ".bak" appended.
BakOf(p) == [dir |-> p.dir, name |-> p.name \o <<".", "b", "a", "k">>]

\* Two workers on these paths touch the same file.
Clash(p, q) == p = q \/ BakOf(p) = q \/ BakOf(q) = p

\* C28: in a run of main no two workers are at the same time at work on the
\* same file, or on a file and the file the other uses as its backup.
C28_NoSharedFile ==
    mpc # "off"
        => \A k \in 1..nfiles, j \in 1..nfiles :
             (k # j /\ progress[k] = "running" /\ progress[j] = "running")
                 => ~Clash(files[k], files[j])

\* C29: a file is counted as an error when and only when its worker raised,
\* a file whose processing returned False is counted as skipped, and without
\* a raising worker the error count is 0.
C29_ErrorsAreRaises ==
    ppc = "done"
        => /\ \A k \in 1..nfiles :
                /\ counted[k].errors = (IF progress[k] = "raised" THEN 1 ELSE 0)
                /\ counted[k].skipped = (IF progress[k] = "False" THEN 1 ELSE 0)
           /\ error_count = Cardinality({k \in 1..nfiles : progress[k] = "raised"})
           /\ skipped_count = Cardinality({k \in 1..nfiles : progress[k] = "False"})

C29_Witness ==
    /\ ppc = "done" /\ nfiles = MaxFiles
    /\ \A k \in 1..nfiles : progress[k] = "False"
    /\ skipped_count = nfiles /\ error_count = 0 /\ pret = 0

\* The worker count is None or at least 1.
ValidWorkers == workers.given => workers.n >= 1

\* C30: with fair scheduling a call with a valid worker count ends: it
\* returns, or is left by the interrupt; every pool opened is drained and
\* closed, and every file submitted is processed.
C30_EventuallyReturns ==
    /\ (ppc = "start" /\ ValidWorkers) ~> (ppc \in {"done", "cancelled"})
    /\ (ppc \in {"pool", "draining"}) ~> (ppc \in {"loop", "cancelled"})
    /\ \A k \in 1..MaxFiles :
        (k <= nfiles /\ ppc \in {"pool", "draining"} /\ progress[k] = "submitted")
            ~> (k <= nfiles /\ progress[k] \in {"True", "False", "raised"})

C30_Witness ==
    /\ ppc = "done" /\ mpc = "off" /\ nfiles = 0
    /\ max_workers = 0 /\ futures = <<>> /\ pret = 0

\* ---------------------------------------------------- properties of find_files
\* Every file of the tree, ignored directories included.
RECURSIVE AllPaths(_, _)
AllPaths(t, dir) ==
    {[dir |-> dir, name |-> t.files[k]] : k \in 1..Len(t.files)}
    \cup UNION {AllPaths(t.dirs[k].tree, Append(dir, t.dirs[k].name)) : k \in 1..Len(t.dirs)}

\* The ignore set and the pattern list the arguments stand for.
IgnoredNames ==
    IF ignore_dirs.given THEN {ignore_dirs.list[i] : i \in 1..Len(ignore_dirs.list)}
    ELSE {".git", ".github", "__pycache__", "node_modules", "venv", ".venv"}

GivenPatterns ==
    IF file_patterns.given /\ file_patterns.list # <<>> THEN file_patterns.list
    ELSE <<<<".", "t", "x", "t">>>>

\* The path lies in a directory with an ignored name.
BelowIgnored(f) == \E i \in 1..Len(f.dir) : f.dir[i] \in IgnoredNames

\* The pattern as it is matched: without surrounding blanks, and with a star
\* before it when it starts with a dot and has no separator.
AsGlob(p) ==
    LET q == Strip(p)
    IN IF q # <<>> /\ q[1] = "." /\ ~\E i \in 1..Len(q) : q[i] \in {"/", "\\"}
       THEN <<"*">> \o q ELSE q

\* The file name matches the pattern (an empty pattern and one whose matching
\* raises match nothing).
NameMatches(name, p) ==
    /\ AsGlob(p) # <<>>
    /\ ~MatchRaises(AsGlob(p))
    /\ PathMatch(name, AsGlob(p))

\* The files pattern p stands for.
FilesOf(p) == {f \in AllPaths(tree, <<>>) : ~BelowIgnored(f) /\ NameMatches(f.name, p)}

\* C25: find_files returns the files outside ignored directories whose name
\* matches one of the patterns, and nothing else.
C25_ExactlyTheMatches ==
    fpc = "returned"
        => /\ {all_files[k] : k \in 1..Len(all_files)}
                = UNION {FilesOf(GivenPatterns[k]) : k \in 1..Len(GivenPatterns)}
           /\ \A k \in 1..Len(all_files) : ~BelowIgnored(all_files[k])

C25_Witness ==
    /\ fpc = "returned" /\ tree = BigTree /\ ~ignore_dirs.given
    /\ file_patterns = [given |-> TRUE, list |-> <<<<".", "a">>>>]
    /\ all_files = <<[dir |-> <<>>, name |-> <<"a", ".", "a">>],
                     [dir |-> <<"lib">>, name |-> <<".", "a">>],
                     [dir |-> <<"lib">>, name |-> <<"a", ".", "a">>]>>

\* The pattern is one whose matching raises.
Raising(p) == AsGlob(p) # <<>> /\ MatchRaises(AsGlob(p))

RECURSIVE SumOf(_)
SumOf(q) == IF q = <<>> THEN 0 ELSE Head(q) + SumOf(Tail(q))

\* C26: with a pattern whose matching raises in the list, find_files returns,
\* and the list is made of the matches of the other patterns.
C26_RaisingPatternSkipped ==
    (fpc = "returned" /\ \E k \in 1..Len(GivenPatterns) : Raising(GivenPatterns[k]))
        => /\ \A k \in 1..Len(GivenPatterns) :
                ~Raising(GivenPatterns[k])
                    => FilesOf(GivenPatterns[k]) \subseteq {all_files[i] : i \in 1..Len(all_files)}
           /\ Len(all_files)
                = SumOf([k \in 1..Len(GivenPatterns) |->
                           IF Raising(GivenPatterns[k]) THEN 0
                           ELSE Cardinality(FilesOf(GivenPatterns[k]))])

C26_Witness ==
    /\ fpc = "returned" /\ tree = FileAndBak
    /\ file_patterns = [given |-> TRUE, list |-> <<<<"*">>, <<".", "/">>>>]
    /\ Len(all_files) = 2

====
